---- MODULE Spec2Model ----
(***************************************************************************)
(* Study-mode reading interface: the state choreography of the App root    *)
(* (position, layout, drag-resize), the PDFViewer page controls, the       *)
(* TableOfContents entries and the ToolPanel chat.                         *)
(*                                                                         *)
(* One action is one browser event (or one asynchronous completion)        *)
(* together with the React render it causes.  A passive effect whose       *)
(* dependencies changed is flushed before the next event is handled: it is *)
(* the step RunCheckMobileEffect, and every other action waits for it.     *)
(* The mocked chat call always answers (it cannot throw); only the moment  *)
(* its awaiting continuation runs is left to the environment.              *)
(***************************************************************************)
EXTENDS Integers, Sequences, FiniteSets

(* ------------------------------ bounds -------------------------------- *)

\* sends accepted by one mounted ToolPanel before the model stops sending
MaxSends == 2
\* continuations of unmounted ToolPanel instances still awaiting their reply
MaxStale == 1
\* recordings requested and not yet started or refused
MaxStarts == 2
\* one-second ticks counted
MaxTicks == 2
\* transcriptions under way at once
MaxTranscribing == 2
\* words in the compose box
MaxInputLen == 5
\* interval timers whose id has been overwritten while they run
MaxLeaked == 1

(* ------------------------- program constants -------------------------- *)

Breakpoint == 1024
MobilePanelWidth == 280
MinWidth == 280
HandleThickness == 4
CollapsedTOCWidth == 48
ExpandedTOCWidth == 240
DefaultTotalPages == 100
DefaultPanelWidth == 320
CollapsedPanelWidth == 380
NoTOCPanelWidth == 400
HiddenPanelWidth == 800
HiddenMargin == 100
\* Math.max() of an empty argument list is -Infinity: below every page
NegInfinity == -1

Undefined == "undefined"
Null == "null"

(* ------------------------ study data (inputs) ------------------------- *)

Sec(id, title, page) == [section_id |-> id, title |-> title, page |-> page]

Chap(id, title, hasSections, sections) ==
  [chapter_id |-> id, title |-> title, hasSections |-> hasSections, sections |-> sections]

\* hasSections = FALSE stands for sections: null
TOCMain ==
  [present |-> TRUE,
   chapters |-> << Chap("c1", "Chapter 1", TRUE,
                        << Sec("s11", "1.1", 2), Sec("s12", "1.2", 4) >>),
                   Chap("c2", "Chapter 2", TRUE,
                        << Sec("s21", "Chapter 2", 5) >>),
                   Chap("c3", "Chapter 3", FALSE, << >>),
                   Chap("c4", "Chapter 4", TRUE,
                        << Sec("s41", "4 Heapsort", 6), Sec("s42", "4.1 Heaps", 6) >>) >>]

\* pages not in reading order, a single section titled unlike its chapter,
\* and a chapter whose section list is empty
TOCSmall ==
  [present |-> TRUE,
   chapters |-> << Chap("d1", "Part A", TRUE,
                        << Sec("t11", "A.2", 3), Sec("t12", "A.1", 1) >>),
                   Chap("d2", "Part B", TRUE,
                        << Sec("t21", "Intro", 2) >>),
                   Chap("d3", "Part C", TRUE, << >>) >>]

TOCNoChapters == [present |-> TRUE, chapters |-> << >>]

NoTOC == [present |-> FALSE, chapters |-> << >>]

TOCs == {TOCMain, TOCSmall, TOCNoChapters, NoTOC}

LastPages == {1, 3}

Viewports == {800, 1025, 1600}

PointerXs == {0, 300, 600, 1000, 1500}

(* --------------------------- pure helpers ----------------------------- *)

Max2(a, b) == IF a >= b THEN a ELSE b

Min2(a, b) == IF a <= b THEN a ELSE b

RECURSIVE SeqMax(_)
SeqMax(s) == IF s = << >> THEN NegInfinity
             ELSE Max2(Head(s), SeqMax(Tail(s)))

RECURSIVE Pages(_)
Pages(sections) == IF sections = << >> THEN << >>
                   ELSE << Head(sections).page >> \o Pages(Tail(sections))

RECURSIVE FlatPages(_)
FlatPages(chapters) ==
  IF chapters = << >> THEN << >>
  ELSE (IF Head(chapters).hasSections THEN Pages(Head(chapters).sections) ELSE << 1 >>)
       \o FlatPages(Tail(chapters))

TotalPagesOf(t) == IF t.present THEN SeqMax(FlatPages(t.chapters)) ELSE DefaultTotalPages

HasTOCOf(t) == t.present /\ Len(t.chapters) > 0

(* page-number text: a sequence of characters *)

DigitChars == << "0", "1", "2", "3", "4", "5", "6", "7", "8", "9" >>

IsDigit(c) == \E d \in 1..10 : DigitChars[d] = c

DigitVal(c) == (CHOOSE d \in 1..10 : DigitChars[d] = c) - 1

RECURSIVE ToDigits(_)
ToDigits(n) == IF n < 10 THEN << DigitChars[n + 1] >>
               ELSE ToDigits(n \div 10) \o << DigitChars[(n % 10) + 1] >>

PageToString(n) == IF n < 0 THEN << "-" >> \o ToDigits(0 - n) ELSE ToDigits(n)

RECURSIVE LeadingDigits(_, _)
LeadingDigits(s, acc) ==
  IF s = << >> \/ ~IsDigit(Head(s)) THEN acc
  ELSE LeadingDigits(Tail(s), acc * 10 + DigitVal(Head(s)))

\* parseInt: optional sign, then the leading digits; NaN without a digit
ParseInt(s) ==
  LET neg  == s # << >> /\ Head(s) = "-"
      body == IF neg THEN Tail(s) ELSE s
  IN IF body = << >> \/ ~IsDigit(Head(body))
     THEN [nan |-> TRUE, val |-> 0]
     ELSE [nan |-> FALSE,
           val |-> IF neg THEN 0 - LeadingDigits(body, 0) ELSE LeadingDigits(body, 0)]

PageInputs == { << "0" >>, << "2" >>, << "5" >>, << "7" >>, << "1", "0", "1" >>,
                << "-", "1" >>, << "x" >> }

(* ------------------------------- state -------------------------------- *)

VARIABLES
  studyData,        \* App: loaded study data [toc, last_position]
  viewport,         \* window.innerWidth (the container spans the window)
  currentPage,      \* App
  isTOCCollapsed,   \* App
  isMobile,         \* App
  rightPanelWidth,  \* App
  isResizing,       \* App
  isPDFHidden,      \* App
  checkPending,     \* the responsive effect is scheduled and not yet flushed
  positionSink,     \* arguments of the last updatePosition call
  lastMove,         \* clientX of the mouse-move event just handled, else NoMove
  lastChapterClick, \* index of the chapter header just clicked, else 0
  listeners,        \* number of listeners each effect has on document
  pageInput,        \* PDFViewer: text of the page-number box
  textSelection,    \* PDFViewer: selected text shown in the popup, else NoSelection
  messages,         \* ToolPanel
  inputValue,       \* ToolPanel: compose box
  isLoading,        \* ToolPanel
  contextText,      \* ToolPanel: quoted context waiting in the compose box
  activeOverlay,    \* ToolPanel
  request,          \* the send this ToolPanel instance is awaiting, else NoRequest
  loadingTool,      \* indices of messages whose MessageComponent isLoadingTool
  staleRequests,    \* awaited calls of ToolPanel instances since unmounted
  loadedIds,        \* tool response ids whose fetch has completed so far
  isRecording,      \* ToolPanel
  recordingTime,    \* ToolPanel
  timerArmed,       \* the interval whose id recordingTimerRef holds is running
  leakedTimers,     \* running intervals whose id recordingTimerRef no longer holds
  recorder,         \* mediaRecorderRef.current: "none", "recording" or "inactive"
  cleanupSawRecording, \* isRecording as captured by the registered effect cleanup
  recEffectPending, \* isRecording changed and its effect is not yet flushed
  startsPending,    \* startRecording calls awaiting getUserMedia
  transcribing,     \* onstop timeouts of this ToolPanel instance not yet fired
  voiceEvent        \* the last recording event handled

appVars == << studyData, viewport, currentPage, isTOCCollapsed, isMobile,
              rightPanelWidth, isResizing, isPDFHidden, checkPending,
              positionSink, lastMove, lastChapterClick, listeners >>

viewerVars == << pageInput, textSelection >>

panelVars == << messages, inputValue, isLoading, contextText, activeOverlay,
                request, loadingTool, staleRequests >>

voiceVars == << isRecording, recordingTime, timerArmed, leakedTimers, recorder,
                cleanupSawRecording, recEffectPending, startsPending,
                transcribing, voiceEvent >>

vars == << appVars, viewerVars, panelVars, voiceVars, loadedIds >>

NoMove == 0 - 1

NoPosition == [page |-> 0, sectionId |-> Null, chapterId |-> Null]

NoSelection == << >>

(* ------------------------- chat data (inputs) ------------------------- *)

NoContext == << >>

NoTool == [has |-> FALSE, type |-> Null, loaded |-> FALSE, id |-> 0 - 1]

NoOverlay == [open |-> FALSE, type |-> Null, id |-> 0 - 1]

NoRequest == [active |-> FALSE, content |-> << >>, autoGenerated |-> FALSE,
              highlightedText |-> NoContext]

\* tool_response_id of the one stored tool response of the chat history
HistoryToolId == 0

HistMsg(role, content, toolId, toolType) ==
  [role |-> role, content |-> content, tool_response_id |-> toolId, tool_type |-> toolType]

\* loadChatHistory: the four stored turns
ChatHistory ==
  << HistMsg("user", << "what", "is", "a", "block" >>, 0 - 1, Null),
     HistMsg("assistant", << "a", "block", "is" >>, HistoryToolId, "diagram"),
     HistMsg("user", << "exact", "text" >>, 0 - 1, Null),
     HistMsg("assistant", << "The", "exact", "text" >>, 0 - 1, Null) >>

Msg(sender, content, hl, tool) ==
  [sender |-> sender, content |-> content, highlightedText |-> hl, toolResponse |-> tool]

ConvertMessage(h) ==
  Msg(IF h.role = "user" THEN "user" ELSE "ai",
      h.content,
      NoContext,
      IF h.tool_response_id # 0 - 1 /\ h.tool_type # Null
      THEN [has |-> TRUE, type |-> h.tool_type, loaded |-> FALSE, id |-> h.tool_response_id]
      ELSE NoTool)

\* convertMessagesFromHistory, run by the effect of a freshly mounted ToolPanel
ConvertMessagesFromHistory == [i \in 1..Len(ChatHistory) |-> ConvertMessage(ChatHistory[i])]

(* ------------------------- derived App values ------------------------- *)

toc == studyData.toc

totalPages == TotalPagesOf(toc)

hasTOC == HasTOCOf(toc)

\* faulty variant: the hidden document no longer removes the contents pane
tocWidthIgnoringHidden ==
  IF ~hasTOC THEN 0
  ELSE IF isTOCCollapsed THEN CollapsedTOCWidth ELSE ExpandedTOCWidth

tocWidth == IF ~hasTOC \/ isPDFHidden THEN 0
            ELSE IF isTOCCollapsed THEN CollapsedTOCWidth ELSE ExpandedTOCWidth

\* getBoundingClientRect().width of the main area, which spans the window
containerWidth == viewport

\* faulty variant: the target width does not depend on the contents being collapsed
CheckMobileWidthIgnoresCollapsed(w, collapsed) ==
  IF w < Breakpoint THEN MobilePanelWidth
  ELSE IF isPDFHidden THEN Min2(HiddenPanelWidth, w - HiddenMargin)
  ELSE IF hasTOC THEN DefaultPanelWidth
  ELSE NoTOCPanelWidth

\* checkMobile: the panel width it stores for window width w
CheckMobileWidth(w, collapsed) ==
  IF w < Breakpoint THEN MobilePanelWidth
  ELSE IF isPDFHidden THEN Min2(HiddenPanelWidth, w - HiddenMargin)
  ELSE IF hasTOC THEN (IF collapsed THEN CollapsedPanelWidth ELSE DefaultPanelWidth)
  ELSE NoTOCPanelWidth

\* faulty variant: the narrow layout does not force the contents to collapse
CheckMobileKeepsCollapsed(w, collapsed) == collapsed

CheckMobileCollapsed(w, collapsed) == IF w < Breakpoint THEN TRUE ELSE collapsed

(* --------------------- mounting of child components ------------------- *)

\* a PDFViewer mounts with pageInput = currentPage.toString() and no selection
ViewerMounted(page) ==
  /\ pageInput' = PageToString(page)
  /\ textSelection' = NoSelection

InFlight == IF request.active THEN 1 ELSE 0

\* recording state of a ToolPanel that has just mounted
VoiceMounted ==
  /\ isRecording' = FALSE
  /\ recordingTime' = 0
  /\ timerArmed' = FALSE
  /\ leakedTimers' = 0
  /\ recorder' = "none"
  /\ cleanupSawRecording' = FALSE
  /\ recEffectPending' = FALSE
  /\ startsPending' = 0
  /\ transcribing' = 0
  /\ voiceEvent' = "none"

\* The narrow and the side-by-side branch render ToolPanel at different places
\* of the tree: switching branch unmounts it and mounts a new one, whose
\* state is the initial state and whose effect loads the history again.  The
\* send the old instance awaits stays in flight (a tool fetch it awaits does
\* too, and its continuation updates nothing that is still mounted).
PanelRemounted ==
  /\ messages' = ConvertMessagesFromHistory
  /\ inputValue' = << >>
  /\ isLoading' = FALSE
  /\ contextText' = NoContext
  /\ activeOverlay' = NoOverlay
  /\ request' = NoRequest
  /\ loadingTool' = {}
  /\ staleRequests' = staleRequests + InFlight
  /\ VoiceMounted

(* -------------------------------- Init -------------------------------- *)

(* ------------------------- document listeners ------------------------- *)

\* PDFViewer's showPopup, set and cleared together with textSelection
showPopup == textSelection # NoSelection

Count(b) == IF b THEN 1 ELSE 0

\* after the first render: App is not resizing, PDFViewer is mounted with its
\* selection effect run and no popup
ListenersAtMount ==
  [resizeMove |-> 0, resizeUp |-> 0, selectionMouseUp |-> 1,
   escapeKeyUp |-> 1, outsideMouseDown |-> 0]

\* the resize effect's dependencies [isResizing, handleMouseMove, handleMouseUp]
\* changed in this render; handleMouseMove depends on [isResizing, isMobile, isPDFHidden]
ResizeEffectReruns ==
  isResizing' # isResizing \/ isMobile' # isMobile \/ isPDFHidden' # isPDFHidden

\* PDFViewer is rendered while the document is shown, under a different
\* parent on either side of the breakpoint
ViewerUnmounts == ~isPDFHidden /\ (isPDFHidden' \/ isMobile' # isMobile)

ViewerMounts == ~isPDFHidden' /\ (isPDFHidden \/ isMobile' # isMobile)

\* the effects of the render that follows a handler: the cleanup of every
\* effect that re-runs or unmounts removes what its last run added, then the
\* effect adds its listeners again if its condition holds
ListenersAfterRender ==
  [resizeMove |-> listeners.resizeMove
                    - Count(ResizeEffectReruns /\ isResizing)
                    + Count(ResizeEffectReruns /\ isResizing'),
   resizeUp |-> listeners.resizeUp
                    - Count(ResizeEffectReruns /\ isResizing)
                    + Count(ResizeEffectReruns /\ isResizing'),
   selectionMouseUp |-> listeners.selectionMouseUp
                    - Count(ViewerUnmounts) + Count(ViewerMounts),
   escapeKeyUp |-> listeners.escapeKeyUp
                    - Count(ViewerUnmounts) + Count(ViewerMounts),
   outsideMouseDown |-> listeners.outsideMouseDown
                    - Count(showPopup /\ (ViewerUnmounts \/ ~showPopup'))
                    + Count(showPopup' /\ (ViewerMounts \/ ~showPopup))]

\* The state once initializeStudyMode has finished and the effects have run.
Init ==
  /\ studyData \in [toc : TOCs, last_position : LastPages]
  /\ viewport \in Viewports
  /\ currentPage = studyData.last_position
  /\ isMobile = (viewport < Breakpoint)
  /\ isTOCCollapsed = CheckMobileCollapsed(viewport, FALSE)
  /\ isPDFHidden = FALSE
  /\ rightPanelWidth = CheckMobileWidth(viewport, isTOCCollapsed)
  /\ isResizing = FALSE
  /\ checkPending = FALSE
  /\ positionSink = NoPosition
  /\ lastMove = NoMove
  /\ lastChapterClick = 0
  /\ listeners = ListenersAtMount
  /\ pageInput = PageToString(currentPage)
  /\ textSelection = NoSelection
  /\ messages = ConvertMessagesFromHistory
  /\ inputValue = << >>
  /\ isLoading = FALSE
  /\ contextText = NoContext
  /\ activeOverlay = NoOverlay
  /\ request = NoRequest
  /\ loadingTool = {}
  /\ staleRequests = 0
  /\ loadedIds = {}
  /\ isRecording = FALSE
  /\ recordingTime = 0
  /\ timerArmed = FALSE
  /\ leakedTimers = 0
  /\ recorder = "none"
  /\ cleanupSawRecording = FALSE
  /\ recEffectPending = FALSE
  /\ startsPending = 0
  /\ transcribing = 0
  /\ voiceEvent = "none"

(* ----------------------------- App actions ---------------------------- *)

\* window 'resize' listener: checkMobile with the new window width
ViewportResize(w) ==
  /\ ~checkPending
  /\ viewport' = w
  /\ isMobile' = (w < Breakpoint)
  /\ isTOCCollapsed' = CheckMobileCollapsed(w, isTOCCollapsed)
  /\ rightPanelWidth' = CheckMobileWidth(w, isTOCCollapsed)
  /\ checkPending' = (isTOCCollapsed' # isTOCCollapsed)
  /\ lastMove' = NoMove
  /\ lastChapterClick' = 0
  /\ IF isMobile' # isMobile
     THEN /\ staleRequests + InFlight <= MaxStale
          /\ PanelRemounted
          /\ ViewerMounted(currentPage)
     ELSE UNCHANGED << panelVars, viewerVars, voiceVars >>
  /\ UNCHANGED << studyData, currentPage, isResizing, isPDFHidden, positionSink >>
  /\ listeners' = ListenersAfterRender
  /\ UNCHANGED loadedIds

\* the responsive effect re-run after isTOCCollapsed, hasTOC or isPDFHidden changed
RunCheckMobileEffect ==
  /\ checkPending
  /\ isMobile' = (viewport < Breakpoint)
  /\ isTOCCollapsed' = CheckMobileCollapsed(viewport, isTOCCollapsed)
  /\ rightPanelWidth' = CheckMobileWidth(viewport, isTOCCollapsed)
  /\ checkPending' = (isTOCCollapsed' # isTOCCollapsed)
  /\ lastMove' = NoMove
  /\ lastChapterClick' = 0
  /\ UNCHANGED voiceVars
  /\ UNCHANGED << studyData, viewport, currentPage, isResizing, isPDFHidden, positionSink >>
  /\ UNCHANGED << panelVars, viewerVars >>
  /\ listeners' = ListenersAfterRender
  /\ UNCHANGED loadedIds

HandleTOCToggle ==
  /\ ~checkPending
  /\ hasTOC /\ ~isPDFHidden
  /\ isTOCCollapsed' = ~isTOCCollapsed
  /\ checkPending' = TRUE
  /\ lastMove' = NoMove
  /\ lastChapterClick' = 0
  /\ UNCHANGED voiceVars
  /\ UNCHANGED << studyData, viewport, currentPage, isMobile, rightPanelWidth,
                  isResizing, isPDFHidden, positionSink >>
  /\ UNCHANGED << panelVars, viewerVars >>
  /\ listeners' = ListenersAfterRender
  /\ UNCHANGED loadedIds

\* faulty variant: hiding or showing the document cancels a drag
HandleTogglePDFCancelsDrag ==
  /\ ~checkPending
  /\ isPDFHidden' = ~isPDFHidden
  /\ isResizing' = FALSE
  /\ checkPending' = TRUE
  /\ lastMove' = NoMove
  /\ lastChapterClick' = 0
  /\ UNCHANGED voiceVars
  /\ ViewerMounted(currentPage)
  /\ UNCHANGED << studyData, viewport, currentPage, isTOCCollapsed, isMobile,
                  rightPanelWidth, positionSink >>
  /\ UNCHANGED panelVars
  /\ listeners' = ListenersAfterRender
  /\ UNCHANGED loadedIds

HandleTogglePDF ==
  /\ ~checkPending
  /\ isPDFHidden' = ~isPDFHidden
  /\ checkPending' = TRUE
  /\ lastMove' = NoMove
  /\ lastChapterClick' = 0
  /\ UNCHANGED voiceVars
  /\ ViewerMounted(currentPage)
  /\ UNCHANGED << studyData, viewport, currentPage, isTOCCollapsed, isMobile,
                  rightPanelWidth, isResizing, positionSink >>
  /\ UNCHANGED panelVars
  /\ listeners' = ListenersAfterRender
  /\ UNCHANGED loadedIds

\* faulty variant: the handle takes a pointer-down in every layout
HandleMouseDownUnrendered ==
  /\ ~checkPending
  /\ ~isResizing
  /\ isResizing' = TRUE
  /\ lastMove' = NoMove
  /\ lastChapterClick' = 0
  /\ UNCHANGED voiceVars
  /\ UNCHANGED << studyData, viewport, currentPage, isTOCCollapsed, isMobile,
                  rightPanelWidth, isPDFHidden, checkPending, positionSink >>
  /\ UNCHANGED << panelVars, viewerVars >>
  /\ listeners' = ListenersAfterRender
  /\ UNCHANGED loadedIds

\* the resize handle is rendered only side by side with the document visible
HandleMouseDown ==
  /\ ~checkPending
  /\ ~isMobile /\ ~isPDFHidden
  /\ ~isResizing
  /\ isResizing' = TRUE
  /\ lastMove' = NoMove
  /\ lastChapterClick' = 0
  /\ UNCHANGED voiceVars
  /\ UNCHANGED << studyData, viewport, currentPage, isTOCCollapsed, isMobile,
                  rightPanelWidth, isPDFHidden, checkPending, positionSink >>
  /\ UNCHANGED << panelVars, viewerVars >>
  /\ listeners' = ListenersAfterRender
  /\ UNCHANGED loadedIds

maxWidth == IF isPDFHidden THEN containerWidth - HiddenMargin
            ELSE (containerWidth * 6) \div 10

\* faulty variant: the upper clamp is dropped
ClampedWidthNoMax(mouseX) ==
  Max2(MinWidth, containerWidth - mouseX - HandleThickness)

ClampedWidth(mouseX) ==
  Max2(MinWidth, Min2(maxWidth, containerWidth - mouseX - HandleThickness))

\* document 'mousemove' listener, attached while isResizing
HandleMouseMove(x) ==
  /\ ~checkPending
  /\ isResizing
  /\ rightPanelWidth' = IF isMobile THEN rightPanelWidth ELSE ClampedWidth(x)
  /\ lastMove' = x
  /\ lastChapterClick' = 0
  /\ UNCHANGED voiceVars
  /\ UNCHANGED << studyData, viewport, currentPage, isTOCCollapsed, isMobile,
                  isResizing, isPDFHidden, checkPending, positionSink >>
  /\ UNCHANGED << panelVars, viewerVars >>
  /\ listeners' = ListenersAfterRender
  /\ UNCHANGED loadedIds

\* document 'mouseup' listener, attached while isResizing
HandleMouseUp ==
  /\ ~checkPending
  /\ isResizing
  /\ isResizing' = FALSE
  /\ lastMove' = NoMove
  /\ lastChapterClick' = 0
  /\ UNCHANGED voiceVars
  /\ UNCHANGED << studyData, viewport, currentPage, isTOCCollapsed, isMobile,
                  rightPanelWidth, isPDFHidden, checkPending, positionSink >>
  /\ UNCHANGED << panelVars, viewerVars >>
  /\ listeners' = ListenersAfterRender
  /\ UNCHANGED loadedIds

\* faulty variant: the page moves one step towards the requested page (a delta)
HandlePageChangeStepwise(page, sectionId, chapterId) ==
  /\ currentPage' = IF page > currentPage THEN currentPage + 1
                    ELSE IF page < currentPage THEN currentPage - 1 ELSE currentPage
  /\ positionSink' = [page |-> page, sectionId |-> sectionId, chapterId |-> chapterId]
  /\ pageInput' = IF currentPage' # currentPage THEN PageToString(currentPage') ELSE pageInput
  /\ lastMove' = NoMove
  /\ UNCHANGED voiceVars
  /\ UNCHANGED << studyData, viewport, isTOCCollapsed, isMobile, rightPanelWidth,
                  isResizing, isPDFHidden, checkPending, textSelection >>
  /\ UNCHANGED panelVars

\* handlePageChange: setCurrentPage, updatePosition, toast; then PDFViewer's
\* effect on currentPage rewrites the page box when the page changed
HandlePageChange(page, sectionId, chapterId) ==
  /\ currentPage' = page
  /\ positionSink' = [page |-> page, sectionId |-> sectionId, chapterId |-> chapterId]
  /\ pageInput' = IF page # currentPage THEN PageToString(page) ELSE pageInput
  /\ lastMove' = NoMove
  /\ UNCHANGED voiceVars
  /\ UNCHANGED << studyData, viewport, isTOCCollapsed, isMobile, rightPanelWidth,
                  isResizing, isPDFHidden, checkPending, textSelection >>
  /\ UNCHANGED panelVars

(* -------------------------- PDFViewer actions ------------------------- *)

HandlePrevPage ==
  /\ ~checkPending
  /\ lastChapterClick' = 0
  /\ ~isPDFHidden
  /\ currentPage > 1
  /\ HandlePageChange(currentPage - 1, Undefined, Undefined)
  /\ listeners' = ListenersAfterRender
  /\ UNCHANGED loadedIds

HandleNextPage ==
  /\ ~checkPending
  /\ lastChapterClick' = 0
  /\ ~isPDFHidden
  /\ currentPage < totalPages
  /\ HandlePageChange(currentPage + 1, Undefined, Undefined)
  /\ listeners' = ListenersAfterRender
  /\ UNCHANGED loadedIds

\* onChange of the page box
SetPageInput(s) ==
  /\ ~checkPending
  /\ ~isPDFHidden
  /\ pageInput' = s
  /\ lastMove' = NoMove
  /\ lastChapterClick' = 0
  /\ UNCHANGED voiceVars
  /\ UNCHANGED << studyData, viewport, currentPage, isTOCCollapsed, isMobile,
                  rightPanelWidth, isResizing, isPDFHidden, checkPending,
                  positionSink, textSelection >>
  /\ UNCHANGED panelVars
  /\ listeners' = ListenersAfterRender
  /\ UNCHANGED loadedIds

PageInputAccepted(s) ==
  LET page == ParseInt(s)
  IN ~page.nan /\ page.val >= 1 /\ page.val <= totalPages

HandlePageInputSubmit ==
  /\ ~checkPending
  /\ ~isPDFHidden
  /\ IF PageInputAccepted(pageInput)
     THEN /\ HandlePageChange(ParseInt(pageInput).val, Undefined, Undefined)
          /\ lastChapterClick' = 0
     ELSE /\ pageInput' = PageToString(currentPage)
          /\ lastMove' = NoMove
          /\ lastChapterClick' = 0
          /\ UNCHANGED voiceVars
          /\ UNCHANGED << studyData, viewport, currentPage, isTOCCollapsed, isMobile,
                          rightPanelWidth, isResizing, isPDFHidden, checkPending,
                          positionSink, textSelection >>
          /\ UNCHANGED panelVars
  /\ listeners' = ListenersAfterRender
  /\ UNCHANGED loadedIds

(* ----------------------- TableOfContents actions ---------------------- *)

\* chapter.sections && chapter.sections.length > 0
HasSections(chapter) == chapter.hasSections /\ Len(chapter.sections) > 0

\* faulty variant: any section makes the chapter expandable
shouldShowSectionsAnySection(chapter) == HasSections(chapter)

shouldShowSections(chapter) ==
  /\ HasSections(chapter)
  /\ ~(Len(chapter.sections) = 1 /\ chapter.sections[1].title = chapter.title)

hasExpandableSections(chapter) == shouldShowSections(chapter)

\* chapterPage: the first section's page, or null (0 here; a page 0 is falsy too)
chapterPage(chapter) == IF HasSections(chapter) THEN chapter.sections[1].page ELSE 0

\* App renders the TableOfContents component
TOCRendered == hasTOC /\ ~isPDFHidden

\* the contents list is rendered with its entries
TOCEntriesShown == hasTOC /\ ~isPDFHidden /\ ~isTOCCollapsed

\* faulty variant: a chapter without sections navigates to the first page
HandleChapterClickDefaultsToFirstPage(c) ==
  /\ ~checkPending
  /\ TOCEntriesShown
  /\ ~hasExpandableSections(toc.chapters[c])
  /\ lastChapterClick' = c
  /\ IF chapterPage(toc.chapters[c]) # 0
     THEN HandlePageChange(chapterPage(toc.chapters[c]),
                           toc.chapters[c].sections[1].section_id,
                           toc.chapters[c].chapter_id)
     ELSE HandlePageChange(1, Undefined, toc.chapters[c].chapter_id)
  /\ listeners' = ListenersAfterRender
  /\ UNCHANGED loadedIds

\* the chapter header has an onClick
isDirectlyClickable(chapter) == ~hasExpandableSections(chapter)

\* onClick of a chapter header, bound only when the chapter is not expandable;
\* without a chapterPage the handler does nothing
HandleChapterClick(c) ==
  /\ ~checkPending
  /\ TOCEntriesShown
  /\ isDirectlyClickable(toc.chapters[c])
  /\ lastChapterClick' = c
  /\ IF chapterPage(toc.chapters[c]) # 0
     THEN HandlePageChange(chapterPage(toc.chapters[c]),
                           toc.chapters[c].sections[1].section_id,
                           toc.chapters[c].chapter_id)
     ELSE /\ lastMove' = NoMove
          /\ UNCHANGED voiceVars
          /\ UNCHANGED << studyData, viewport, currentPage, isTOCCollapsed, isMobile,
                          rightPanelWidth, isResizing, isPDFHidden, checkPending,
                          positionSink >>
          /\ UNCHANGED viewerVars
          /\ UNCHANGED panelVars
  /\ listeners' = ListenersAfterRender
  /\ UNCHANGED loadedIds

\* faulty variant: every section entry passes the id of the chapter's first section
HandleSectionClickFirstId(c, i) ==
  /\ ~checkPending
  /\ lastChapterClick' = 0
  /\ TOCEntriesShown
  /\ hasExpandableSections(toc.chapters[c])
  /\ HandlePageChange(toc.chapters[c].sections[i].page,
                      toc.chapters[c].sections[1].section_id,
                      toc.chapters[c].chapter_id)
  /\ listeners' = ListenersAfterRender
  /\ UNCHANGED loadedIds

\* onClick of a section entry, rendered only under an expandable chapter
HandleSectionClick(c, i) ==
  /\ ~checkPending
  /\ lastChapterClick' = 0
  /\ TOCEntriesShown
  /\ hasExpandableSections(toc.chapters[c])
  /\ HandlePageChange(toc.chapters[c].sections[i].page,
                      toc.chapters[c].sections[i].section_id,
                      toc.chapters[c].chapter_id)
  /\ listeners' = ListenersAfterRender
  /\ UNCHANGED loadedIds

(* --------------------------- chat inputs ------------------------------ *)

\* highlighted texts, as words; the second contains the word 'game'
Texts == { << "heap" >>, << "game", "tree" >> }

\* what the user types into the compose box; " " is white space only
TypedInputs == { << "hi" >>, << " " >> }

ToolIds == { "flashcard", "quiz", "diagram", "game" }

\* getToolDisplayName(toolType).toLowerCase(), also tool.name.toLowerCase()
ToolNameLower(toolType) ==
  CASE toolType = "flashcard" -> "flashcards"
    [] toolType = "quiz"      -> "quiz"
    [] toolType = "diagram"   -> "diagrams"
    [] toolType = "game"      -> "games"
    [] OTHER                  -> toolType

\* the keyword a word contains as a substring, for String.includes
KeywordIn(word) ==
  CASE word \in { "game", "games" }            -> "game"
    [] word \in { "diagram", "diagrams" }      -> "diagram"
    [] word \in { "flashcard", "flashcards" }  -> "flashcard"
    [] word = "quiz"                           -> "quiz"
    [] OTHER                                   -> Null

Includes(content, keyword) == \E i \in 1..Len(content) : KeywordIn(content[i]) = keyword

\* !content.trim()
IsBlank(content) == \A i \in 1..Len(content) : content[i] = " "

(* -------------------------- ToolPanel: sending ------------------------ *)

\* sendChatMessage: tool_type of the mocked response
ResponseToolType(content, autoGenerated) ==
  IF ~autoGenerated THEN Null
  ELSE IF Includes(content, "game") THEN "game"
  ELSE IF Includes(content, "diagram") THEN "diagram"
  ELSE IF Includes(content, "flashcard") THEN "flashcard"
  ELSE "quiz"

\* sendChatMessage: content of the mocked response
ResponseContent(autoGenerated, highlightedText) ==
  IF highlightedText # NoContext THEN << "Based", "on" >> \o highlightedText
  ELSE IF autoGenerated THEN << "generated", "the", "requested", "tool" >>
  ELSE << "This", "page", "discusses" >>

\* the aiMessage built from the response; its tool id is fresh in the list
AiMessage(req, toolId) ==
  Msg("ai",
      ResponseContent(req.autoGenerated, req.highlightedText),
      NoContext,
      IF req.autoGenerated
      THEN [has |-> TRUE, type |-> ResponseToolType(req.content, req.autoGenerated),
            loaded |-> TRUE, id |-> toolId]
      ELSE NoTool)

SendsLeft == Len(messages) + 2 <= Len(ConvertMessagesFromHistory) + 2 * MaxSends

\* faulty variant: a send leaves the quoted context in the compose box
HandleSendMessageKeepsContext(messageContent, autoGenerated, highlightedTextOverride) ==
  LET content == IF messageContent # << >> THEN messageContent ELSE inputValue
      currentContextText == IF highlightedTextOverride # NoContext
                            THEN highlightedTextOverride ELSE contextText
  IN IF IsBlank(content) \/ isLoading
     THEN UNCHANGED << messages, inputValue, contextText, isLoading, request >>
     ELSE /\ SendsLeft
          /\ messages' = Append(messages, Msg("user", content, currentContextText, NoTool))
          /\ inputValue' = IF autoGenerated THEN inputValue ELSE << >>
          /\ contextText' = contextText
          /\ isLoading' = TRUE
          /\ request' = [active |-> TRUE, content |-> content, autoGenerated |-> autoGenerated,
                         highlightedText |-> currentContextText]

\* faulty variant: the isLoading guard is missing
HandleSendMessageUnguarded(messageContent, autoGenerated, highlightedTextOverride) ==
  LET content == IF messageContent # << >> THEN messageContent ELSE inputValue
      currentContextText == IF highlightedTextOverride # NoContext
                            THEN highlightedTextOverride ELSE contextText
  IN IF IsBlank(content)
     THEN UNCHANGED << messages, inputValue, contextText, isLoading, request >>
     ELSE /\ SendsLeft
          /\ messages' = Append(messages, Msg("user", content, currentContextText, NoTool))
          /\ inputValue' = IF autoGenerated THEN inputValue ELSE << >>
          /\ contextText' = IF highlightedTextOverride # NoContext THEN contextText ELSE NoContext
          /\ isLoading' = TRUE
          /\ request' = [active |-> TRUE, content |-> content, autoGenerated |-> autoGenerated,
                         highlightedText |-> currentContextText]

\* handleSendMessage up to its await; << >> and NoContext stand for an omitted argument
HandleSendMessage(messageContent, autoGenerated, highlightedTextOverride) ==
  LET content == IF messageContent # << >> THEN messageContent ELSE inputValue
      currentContextText == IF highlightedTextOverride # NoContext
                            THEN highlightedTextOverride ELSE contextText
  IN IF IsBlank(content) \/ isLoading
     THEN UNCHANGED << messages, inputValue, contextText, isLoading, request >>
     ELSE /\ SendsLeft
          /\ messages' = Append(messages, Msg("user", content, currentContextText, NoTool))
          /\ inputValue' = IF autoGenerated THEN inputValue ELSE << >>
          /\ contextText' = IF highlightedTextOverride # NoContext THEN contextText ELSE NoContext
          /\ isLoading' = TRUE
          /\ request' = [active |-> TRUE, content |-> content, autoGenerated |-> autoGenerated,
                         highlightedText |-> currentContextText]

\* onChange of the compose box
SetInputValue(v) ==
  /\ ~checkPending
  /\ inputValue' = v
  /\ lastMove' = NoMove
  /\ lastChapterClick' = 0
  /\ UNCHANGED voiceVars
  /\ UNCHANGED << messages, isLoading, contextText, activeOverlay, request,
                  loadingTool, staleRequests >>
  /\ UNCHANGED << studyData, viewport, currentPage, isTOCCollapsed, isMobile,
                  rightPanelWidth, isResizing, isPDFHidden, checkPending, positionSink >>
  /\ UNCHANGED viewerVars
  /\ listeners' = ListenersAfterRender
  /\ UNCHANGED loadedIds

\* Enter in the compose box (handleKeyDown); the Send button calls the same
SendFromCompose ==
  /\ ~checkPending
  /\ HandleSendMessage(<< >>, FALSE, NoContext)
  /\ lastMove' = NoMove
  /\ lastChapterClick' = 0
  /\ UNCHANGED voiceVars
  /\ UNCHANGED << activeOverlay, loadingTool, staleRequests >>
  /\ UNCHANGED << studyData, viewport, currentPage, isTOCCollapsed, isMobile,
                  rightPanelWidth, isResizing, isPDFHidden, checkPending, positionSink >>
  /\ UNCHANGED viewerVars
  /\ listeners' = ListenersAfterRender
  /\ UNCHANGED loadedIds

\* a toolbar tool button, disabled while isLoading
HandleToolUse(tool) ==
  /\ ~checkPending
  /\ ~isLoading
  /\ HandleSendMessage(<< "Generate", "a", ToolNameLower(tool), "based", "on", "page" >>,
                       TRUE, NoContext)
  /\ lastMove' = NoMove
  /\ lastChapterClick' = 0
  /\ UNCHANGED voiceVars
  /\ UNCHANGED << activeOverlay, loadingTool, staleRequests >>
  /\ UNCHANGED << studyData, viewport, currentPage, isTOCCollapsed, isMobile,
                  rightPanelWidth, isResizing, isPDFHidden, checkPending, positionSink >>
  /\ UNCHANGED viewerVars
  /\ listeners' = ListenersAfterRender
  /\ UNCHANGED loadedIds

\* faulty variant: a reply that carries a tool opens the overlay
CompleteSendOpensOverlay ==
  /\ ~checkPending
  /\ request.active
  /\ messages' = Append(messages, AiMessage(request, Len(messages) + 1))
  /\ isLoading' = FALSE
  /\ request' = NoRequest
  /\ activeOverlay' = IF request.autoGenerated
                      THEN [open |-> TRUE, id |-> Len(messages) + 1,
                            type |-> ResponseToolType(request.content, TRUE)]
                      ELSE activeOverlay
  /\ lastMove' = NoMove
  /\ lastChapterClick' = 0
  /\ UNCHANGED voiceVars
  /\ UNCHANGED << inputValue, contextText, loadingTool, staleRequests >>
  /\ UNCHANGED << studyData, viewport, currentPage, isTOCCollapsed, isMobile,
                  rightPanelWidth, isResizing, isPDFHidden, checkPending, positionSink >>
  /\ UNCHANGED viewerVars
  /\ listeners' = ListenersAfterRender
  /\ UNCHANGED loadedIds

\* the continuation of handleSendMessage after its await
CompleteSend ==
  /\ ~checkPending
  /\ request.active
  /\ messages' = Append(messages, AiMessage(request, Len(messages) + 1))
  /\ isLoading' = FALSE
  /\ request' = NoRequest
  /\ lastMove' = NoMove
  /\ lastChapterClick' = 0
  /\ UNCHANGED voiceVars
  /\ UNCHANGED << inputValue, contextText, activeOverlay, loadingTool, staleRequests >>
  /\ UNCHANGED << studyData, viewport, currentPage, isTOCCollapsed, isMobile,
                  rightPanelWidth, isResizing, isPDFHidden, checkPending, positionSink >>
  /\ UNCHANGED viewerVars
  /\ listeners' = ListenersAfterRender
  /\ UNCHANGED loadedIds

\* the same continuation in an unmounted ToolPanel: its state updates are dropped
CompleteStaleSend ==
  /\ ~checkPending
  /\ staleRequests > 0
  /\ staleRequests' = staleRequests - 1
  /\ lastMove' = NoMove
  /\ lastChapterClick' = 0
  /\ UNCHANGED voiceVars
  /\ UNCHANGED << messages, inputValue, isLoading, contextText, activeOverlay,
                  request, loadingTool >>
  /\ UNCHANGED << studyData, viewport, currentPage, isTOCCollapsed, isMobile,
                  rightPanelWidth, isResizing, isPDFHidden, checkPending, positionSink >>
  /\ UNCHANGED viewerVars
  /\ listeners' = ListenersAfterRender
  /\ UNCHANGED loadedIds

(* ----------------------- ToolPanel: highlighted text ------------------ *)

\* ref.handleHighlightedText
HandleHighlightedText(text) ==
  /\ contextText' = text
  /\ inputValue' = << "Please", "explain:" >> \o text
  /\ UNCHANGED << messages, isLoading, request >>

\* faulty variant: the generation is sent like a typed message
HandleDirectToolGenerationAsTyped(text, toolType) ==
  HandleSendMessage(<< "Generate", ToolNameLower(toolType), "from" >> \o text, FALSE, NoContext)

\* ref.handleDirectToolGeneration
HandleDirectToolGeneration(text, toolType) ==
  HandleSendMessage(<< "Generate", ToolNameLower(toolType), "from" >> \o text, TRUE, text)

\* faulty variant: every highlight goes to the compose box
HandleTextHighlightAlwaysCompose(text, toolType) == HandleHighlightedText(text)

\* App.handleTextHighlight: route by the requested tool type
HandleTextHighlight(text, toolType) ==
  IF toolType # Undefined /\ toolType # "ask"
  THEN HandleDirectToolGeneration(text, toolType)
  ELSE HandleHighlightedText(text)

\* PDFViewer.handleTextSelection: a non-empty selection opens the popup
SelectText(t) ==
  /\ ~checkPending
  /\ ~isPDFHidden
  /\ textSelection' = t
  /\ lastMove' = NoMove
  /\ lastChapterClick' = 0
  /\ UNCHANGED voiceVars
  /\ UNCHANGED pageInput
  /\ UNCHANGED panelVars
  /\ UNCHANGED << studyData, viewport, currentPage, isTOCCollapsed, isMobile,
                  rightPanelWidth, isResizing, isPDFHidden, checkPending, positionSink >>
  /\ listeners' = ListenersAfterRender
  /\ UNCHANGED loadedIds

\* PDFViewer.handleToolSelect: a tool of the selection popup
HandleToolSelect(toolId) ==
  /\ ~checkPending
  /\ ~isPDFHidden
  /\ textSelection # NoSelection
  /\ HandleTextHighlight(textSelection, IF toolId = "ask" THEN Undefined ELSE toolId)
  /\ textSelection' = NoSelection
  /\ lastMove' = NoMove
  /\ lastChapterClick' = 0
  /\ UNCHANGED voiceVars
  /\ UNCHANGED pageInput
  /\ UNCHANGED << activeOverlay, loadingTool, staleRequests >>
  /\ UNCHANGED << studyData, viewport, currentPage, isTOCCollapsed, isMobile,
                  rightPanelWidth, isResizing, isPDFHidden, checkPending, positionSink >>
  /\ listeners' = ListenersAfterRender
  /\ UNCHANGED loadedIds

\* PDFViewer.handleClosePopup, and Escape
HandleClosePopup ==
  /\ ~checkPending
  /\ ~isPDFHidden
  /\ textSelection # NoSelection
  /\ textSelection' = NoSelection
  /\ lastMove' = NoMove
  /\ lastChapterClick' = 0
  /\ UNCHANGED voiceVars
  /\ UNCHANGED pageInput
  /\ UNCHANGED panelVars
  /\ UNCHANGED << studyData, viewport, currentPage, isTOCCollapsed, isMobile,
                  rightPanelWidth, isResizing, isPDFHidden, checkPending, positionSink >>
  /\ listeners' = ListenersAfterRender
  /\ UNCHANGED loadedIds

HandleClearContext ==
  /\ ~checkPending
  /\ contextText # NoContext
  /\ contextText' = NoContext
  /\ inputValue' = << >>
  /\ lastMove' = NoMove
  /\ lastChapterClick' = 0
  /\ UNCHANGED voiceVars
  /\ UNCHANGED << messages, isLoading, activeOverlay, request, loadingTool, staleRequests >>
  /\ UNCHANGED << studyData, viewport, currentPage, isTOCCollapsed, isMobile,
                  rightPanelWidth, isResizing, isPDFHidden, checkPending, positionSink >>
  /\ UNCHANGED viewerVars
  /\ listeners' = ListenersAfterRender
  /\ UNCHANGED loadedIds

(* ------------------------ ToolPanel: tool overlay --------------------- *)

\* MessageComponent.handleOpenTool up to its await
HandleOpenTool(i) ==
  /\ ~checkPending
  /\ messages[i].toolResponse.has
  /\ i \notin loadingTool
  /\ IF messages[i].toolResponse.loaded
     THEN /\ activeOverlay' = [open |-> TRUE, type |-> messages[i].toolResponse.type,
                               id |-> messages[i].toolResponse.id]
          /\ UNCHANGED loadingTool
     ELSE /\ messages[i].toolResponse.id # 0 - 1
          /\ loadingTool' = loadingTool \cup {i}
          /\ UNCHANGED activeOverlay
  /\ lastMove' = NoMove
  /\ lastChapterClick' = 0
  /\ UNCHANGED voiceVars
  /\ UNCHANGED << messages, inputValue, isLoading, contextText, request, staleRequests >>
  /\ UNCHANGED << studyData, viewport, currentPage, isTOCCollapsed, isMobile,
                  rightPanelWidth, isResizing, isPDFHidden, checkPending, positionSink >>
  /\ UNCHANGED viewerVars
  /\ listeners' = ListenersAfterRender
  /\ UNCHANGED loadedIds

\* loadToolResponse: store the content in every message with this id
LoadToolResponse(toolResponseId) ==
  [k \in 1..Len(messages) |->
     IF messages[k].toolResponse.has /\ messages[k].toolResponse.id = toolResponseId
     THEN [messages[k] EXCEPT !.toolResponse.loaded = TRUE]
     ELSE messages[k]]

\* the fetched tool response arrives: loadToolResponse, then handleOpenTool's finally
CompleteLoadTool(i) ==
  /\ ~checkPending
  /\ i \in loadingTool
  /\ messages' = LoadToolResponse(messages[i].toolResponse.id)
  /\ activeOverlay' = [open |-> TRUE, type |-> messages[i].toolResponse.type,
                       id |-> messages[i].toolResponse.id]
  /\ loadingTool' = loadingTool \ {i}
  /\ lastMove' = NoMove
  /\ lastChapterClick' = 0
  /\ UNCHANGED voiceVars
  /\ UNCHANGED << inputValue, isLoading, contextText, request, staleRequests >>
  /\ UNCHANGED << studyData, viewport, currentPage, isTOCCollapsed, isMobile,
                  rightPanelWidth, isResizing, isPDFHidden, checkPending, positionSink >>
  /\ UNCHANGED viewerVars
  /\ listeners' = ListenersAfterRender
  /\ loadedIds' = loadedIds \cup {messages[i].toolResponse.id}

\* ToolOverlay onClose / onMinimize
CloseOverlay ==
  /\ ~checkPending
  /\ activeOverlay.open
  /\ activeOverlay' = NoOverlay
  /\ lastMove' = NoMove
  /\ lastChapterClick' = 0
  /\ UNCHANGED voiceVars
  /\ UNCHANGED << messages, inputValue, isLoading, contextText, request,
                  loadingTool, staleRequests >>
  /\ UNCHANGED << studyData, viewport, currentPage, isTOCCollapsed, isMobile,
                  rightPanelWidth, isResizing, isPDFHidden, checkPending, positionSink >>
  /\ UNCHANGED viewerVars
  /\ listeners' = ListenersAfterRender
  /\ UNCHANGED loadedIds

(* ----------------------- ToolPanel: failure paths --------------------- *)

\* what a failing call's continuation leaves alone
FailureFrame ==
  /\ lastMove' = NoMove
  /\ lastChapterClick' = 0
  /\ UNCHANGED voiceVars
  /\ UNCHANGED << studyData, viewport, currentPage, isTOCCollapsed, isMobile,
                  rightPanelWidth, isResizing, isPDFHidden, checkPending, positionSink >>
  /\ UNCHANGED viewerVars
  /\ listeners' = ListenersAfterRender
  /\ UNCHANGED loadedIds

\* the awaited sendChatMessage rejects: handleSendMessage's catch and finally
FailSend ==
  /\ ~checkPending
  /\ request.active
  /\ isLoading' = FALSE
  /\ request' = NoRequest
  /\ UNCHANGED << messages, inputValue, contextText, activeOverlay, loadingTool,
                  staleRequests >>
  /\ FailureFrame

\* the awaited loadToolResponse rejects: handleOpenTool's catch and finally
FailLoadTool(i) ==
  /\ ~checkPending
  /\ i \in loadingTool
  /\ loadingTool' = loadingTool \ {i}
  /\ UNCHANGED << messages, inputValue, isLoading, contextText, activeOverlay,
                  request, staleRequests >>
  /\ FailureFrame

(* ----------------------- ToolPanel: voice capture --------------------- *)

\* what every recording step leaves alone
VoiceFrame ==
  /\ lastMove' = NoMove
  /\ lastChapterClick' = 0
  /\ UNCHANGED << messages, isLoading, contextText, activeOverlay, request,
                  loadingTool, staleRequests >>
  /\ UNCHANGED << studyData, viewport, currentPage, isTOCCollapsed, isMobile,
                  rightPanelWidth, isResizing, isPDFHidden, checkPending, positionSink >>
  /\ UNCHANGED viewerVars
  /\ listeners' = ListenersAfterRender
  /\ UNCHANGED loadedIds

\* the transcribed text, one word here
TranscribedText == "Can you explain"

\* prev + (prev ? '\n' : '') + transcribedText
WithTranscript(prev) ==
  prev \o (IF prev # << >> THEN << "\n" >> ELSE << >>) \o << TranscribedText >>

\* toggleRecording while not recording: startRecording up to its await.  The
\* record button is disabled only while isLoading, so it can be pressed again
\* before getUserMedia has answered.
ToggleRecordingStart ==
  /\ ~checkPending /\ ~recEffectPending
  /\ ~isLoading
  /\ ~isRecording
  /\ startsPending < MaxStarts
  /\ startsPending' = startsPending + 1
  /\ voiceEvent' = "requested"
  /\ UNCHANGED << isRecording, recordingTime, timerArmed, leakedTimers, recorder,
                  cleanupSawRecording, recEffectPending, transcribing, inputValue >>
  /\ VoiceFrame

\* faulty variant: the recording state is set before the capture is known to start
StartRecordingFailsRecording ==
  /\ ~checkPending
  /\ startsPending > 0
  /\ startsPending' = startsPending - 1
  /\ isRecording' = TRUE
  /\ recEffectPending' = (recEffectPending \/ ~isRecording)
  /\ voiceEvent' = "failed"
  /\ UNCHANGED << recordingTime, timerArmed, leakedTimers, recorder,
                  cleanupSawRecording, transcribing, inputValue >>
  /\ VoiceFrame

\* startRecording fails before it has stored a recorder: recording is not
\* supported, getUserMedia rejects, or new MediaRecorder throws
StartRecordingFails ==
  /\ ~checkPending
  /\ startsPending > 0
  /\ startsPending' = startsPending - 1
  /\ voiceEvent' = "failed"
  /\ UNCHANGED << isRecording, recordingTime, timerArmed, leakedTimers, recorder,
                  cleanupSawRecording, recEffectPending, transcribing, inputValue >>
  /\ VoiceFrame

\* mediaRecorder.start() throws: the recorder is already in mediaRecorderRef
StartRecordingThrows ==
  /\ ~checkPending
  /\ startsPending > 0
  /\ startsPending' = startsPending - 1
  /\ recorder' = "inactive"
  /\ voiceEvent' = "failed"
  /\ UNCHANGED << isRecording, recordingTime, timerArmed, leakedTimers,
                  cleanupSawRecording, recEffectPending, transcribing, inputValue >>
  /\ VoiceFrame

\* startRecording after its await: the recorder starts, the state is set and
\* a new interval is stored over whatever recordingTimerRef held
StartRecordingGranted ==
  /\ ~checkPending
  /\ startsPending > 0
  /\ leakedTimers + (IF timerArmed THEN 1 ELSE 0) <= MaxLeaked
  /\ startsPending' = startsPending - 1
  /\ recorder' = "recording"
  /\ isRecording' = TRUE
  /\ recordingTime' = 0
  /\ leakedTimers' = leakedTimers + (IF timerArmed THEN 1 ELSE 0)
  /\ timerArmed' = TRUE
  /\ recEffectPending' = (recEffectPending \/ ~isRecording)
  /\ voiceEvent' = "started"
  /\ UNCHANGED << cleanupSawRecording, transcribing, inputValue >>
  /\ VoiceFrame

\* the effect on [isRecording] re-runs: the cleanup registered by the previous
\* render clears the interval recordingTimerRef holds now and, if that render
\* was recording, stops the recorder mediaRecorderRef holds now
RunRecordingEffect ==
  /\ ~checkPending
  /\ recEffectPending
  /\ timerArmed' = FALSE
  /\ IF cleanupSawRecording /\ recorder = "recording"
     THEN /\ transcribing < MaxTranscribing
          /\ recorder' = "inactive"
          /\ transcribing' = transcribing + 1
     ELSE UNCHANGED << recorder, transcribing >>
  /\ cleanupSawRecording' = isRecording
  /\ recEffectPending' = FALSE
  /\ voiceEvent' = "effect"
  /\ UNCHANGED << isRecording, recordingTime, leakedTimers, startsPending, inputValue >>
  /\ VoiceFrame

\* toggleRecording while recording: stopRecording.  stop() on a recorder that
\* is not recording fires no stop event, whether it throws or not.
StopRecording ==
  /\ ~checkPending /\ ~recEffectPending
  /\ ~isLoading
  /\ isRecording
  /\ IF recorder = "recording"
     THEN /\ transcribing < MaxTranscribing
          /\ transcribing' = transcribing + 1
     ELSE UNCHANGED transcribing
  /\ recorder' = "inactive"
  /\ isRecording' = FALSE
  /\ timerArmed' = FALSE
  /\ recEffectPending' = TRUE
  /\ voiceEvent' = "stopped"
  /\ UNCHANGED << recordingTime, leakedTimers, cleanupSawRecording, startsPending,
                  inputValue >>
  /\ VoiceFrame

\* a running interval fires: setRecordingTime(prev => prev + 1)
Tick ==
  /\ ~checkPending
  /\ timerArmed \/ leakedTimers > 0
  /\ recordingTime < MaxTicks
  /\ recordingTime' = recordingTime + 1
  /\ voiceEvent' = "tick"
  /\ UNCHANGED << isRecording, timerArmed, leakedTimers, recorder, cleanupSawRecording,
                  recEffectPending, startsPending, transcribing, inputValue >>
  /\ VoiceFrame

\* the timeout set by mediaRecorder.onstop fires
CompleteTranscription ==
  /\ ~checkPending
  /\ transcribing > 0
  /\ Len(WithTranscript(inputValue)) <= MaxInputLen
  /\ inputValue' = WithTranscript(inputValue)
  /\ transcribing' = transcribing - 1
  /\ voiceEvent' = "transcribed"
  /\ UNCHANGED << isRecording, recordingTime, timerArmed, leakedTimers, recorder,
                  cleanupSawRecording, recEffectPending, startsPending >>
  /\ VoiceFrame

(* ------------------------ ToolPanel: current section ------------------ *)

NoCurrentContext == [chapterId |-> Null, sectionId |-> Null]

RECURSIVE FindSection(_, _, _)
FindSection(chapter, i, page) ==
  IF ~chapter.hasSections \/ i > Len(chapter.sections) THEN NoCurrentContext
  ELSE IF chapter.sections[i].page = page
       THEN [chapterId |-> chapter.chapter_id, sectionId |-> chapter.sections[i].section_id]
       ELSE FindSection(chapter, i + 1, page)

RECURSIVE FindInChapters(_, _, _)
FindInChapters(chapters, c, page) ==
  IF c > Len(chapters) THEN NoCurrentContext
  ELSE IF FindSection(chapters[c], 1, page) # NoCurrentContext
       THEN FindSection(chapters[c], 1, page)
       ELSE FindInChapters(chapters, c + 1, page)

\* getCurrentContext: the first section, in contents order, on the current page
getCurrentContext ==
  IF ~toc.present THEN NoCurrentContext ELSE FindInChapters(toc.chapters, 1, currentPage)

(* --------------------------- specifications --------------------------- *)

LayoutNext ==
  \/ \E w \in Viewports : ViewportResize(w)
  \/ RunCheckMobileEffect
  \/ HandleTOCToggle
  \/ HandleTogglePDF
  \/ HandleMouseDown
  \/ \E x \in PointerXs : HandleMouseMove(x)
  \/ HandleMouseUp

NavNext ==
  \/ HandlePrevPage
  \/ HandleNextPage
  \/ \E s \in PageInputs : SetPageInput(s)
  \/ HandlePageInputSubmit
  \/ \E c \in 1..Len(toc.chapters) : HandleChapterClick(c)
  \/ \E c \in 1..Len(toc.chapters) :
       \E i \in 1..Len(toc.chapters[c].sections) : HandleSectionClick(c, i)

\* the tools and window widths the chat specifications draw their events from
ChatTools == { "quiz", "game" }

ChatViewports == { 800, 1025 }

SendNext ==
  \/ \E v \in TypedInputs : SetInputValue(v)
  \/ SendFromCompose
  \/ \E tool \in ChatTools : HandleToolUse(tool)
  \/ CompleteSend
  \/ CompleteStaleSend
  \/ \E t \in Texts : SelectText(t)
  \/ \E toolId \in ChatTools \cup {"ask"} : HandleToolSelect(toolId)
  \/ HandleClosePopup
  \/ HandleClearContext

OverlayNext ==
  \/ \E i \in 1..Len(messages) : HandleOpenTool(i)
  \/ \E i \in 1..Len(messages) : CompleteLoadTool(i)
  \/ CloseOverlay

PanelLayoutNext ==
  \/ \E w \in ChatViewports : ViewportResize(w)
  \/ RunCheckMobileEffect

\* the chat of one reading session (one table of contents, one start page),
\* with the viewport events that mount and unmount its components
InitChat ==
  /\ Init
  /\ studyData = [toc |-> TOCMain, last_position |-> 1]
  /\ viewport \in ChatViewports

\* navigation together with the layout events that show and hide its controls
SpecNav == Init /\ [][NavNext \/ LayoutNext]_vars

SpecChat == InitChat /\ [][SendNext \/ PanelLayoutNext]_vars

FailureNext ==
  \/ FailSend
  \/ \E i \in 1..Len(messages) : FailLoadTool(i)

VoiceNext ==
  \/ ToggleRecordingStart
  \/ StartRecordingFails
  \/ StartRecordingThrows
  \/ StartRecordingGranted
  \/ RunRecordingEffect
  \/ StopRecording
  \/ Tick
  \/ CompleteTranscription

\* voice capture next to typing, with the viewport events that remount the panel
SpecVoice ==
  InitChat /\ [][VoiceNext \/ (\E v \in TypedInputs : SetInputValue(v)) \/ PanelLayoutNext]_vars

\* sends with and without a tool, from the compose box and the toolbar
ToolSendNext ==
  \/ \E v \in TypedInputs : SetInputValue(v)
  \/ SendFromCompose
  \/ \E tool \in ChatTools : HandleToolUse(tool)
  \/ CompleteSend
  \/ CompleteStaleSend

\* the chat together with the opening of tools and the viewport events
SpecTools == InitChat /\ [][ToolSendNext \/ OverlayNext \/ PanelLayoutNext]_vars

\* sends and tool fetches that may fail, with the viewport events
SpecFail ==
  InitChat /\ [][ToolSendNext \/ OverlayNext \/ FailureNext \/ PanelLayoutNext]_vars

Next == NavNext \/ LayoutNext \/ SendNext \/ OverlayNext \/ VoiceNext \/ FailureNext

Spec == Init /\ [][Next]_vars

(* ------------------------------- claims ------------------------------- *)

SinkFromContents == positionSink.sectionId # Null /\ positionSink.sectionId # Undefined

\* C1: whatever the sequence of navigations (contents entries, prev/next, page
\* box), the current page is the page of the last navigateTo call: every
\* navigation replaces the page.
C1_LastWriteWins ==
  positionSink # NoPosition => currentPage = positionSink.page

C1_Witness ==
  /\ positionSink # NoPosition
  /\ positionSink.page # studyData.last_position
  /\ currentPage = positionSink.page

Clamp(p, lo, hi) == IF p < lo THEN lo ELSE IF p > hi THEN hi ELSE p

\* C2 (as stated): a page request is never rejected: with a page count of at
\* least 1, submitting a number in the page box makes the page that number
\* clamped into [1, totalPages].
C2_NavigateClamps ==
  [][ (HandlePageInputSubmit /\ ~ParseInt(pageInput).nan /\ totalPages >= 1)
        => currentPage' = Clamp(ParseInt(pageInput).val, 1, totalPages) ]_vars

\* C3: side by side, the contents pane is 0 wide when there is no table of
\* contents or the document is hidden, whatever contentsCollapsed is; otherwise
\* 48 wide when collapsed and 240 wide when expanded.
C3_ContentsWidth ==
  ~isMobile =>
    IF ~studyData.toc.present \/ Len(studyData.toc.chapters) = 0 \/ isPDFHidden
    THEN tocWidth = 0
    ELSE tocWidth = (IF isTOCCollapsed THEN 48 ELSE 240)

C3_Witness ==
  /\ ~isMobile /\ isPDFHidden /\ ~isTOCCollapsed
  /\ studyData.toc.present /\ Len(studyData.toc.chapters) > 0
  /\ tocWidth = 0

ExpectedDragWidth ==
  LET raw == viewport - lastMove - 4
      mx  == IF isPDFHidden THEN viewport - 100 ELSE (viewport * 3) \div 5
  IN IF raw < 280 THEN 280 ELSE IF raw > mx THEN mx ELSE raw

\* C4 (as stated): after every pointer-move of a drag the tool-panel width is
\* containerWidth - pointerX - 4 clamped to [280, maxWidth].
C4_MoveAlwaysClamps ==
  lastMove # NoMove => rightPanelWidth = ExpectedDragWidth

\* C4 (amended): side by side, after every pointer-move of a drag the width is
\* containerWidth - pointerX - 4 clamped to [280, maxWidth] and never above
\* maxWidth; in a narrow viewport the move leaves the fixed width 280.
C4_MoveClampsSideBySide ==
  lastMove # NoMove =>
    IF isMobile THEN rightPanelWidth = 280
    ELSE /\ rightPanelWidth = ExpectedDragWidth
         /\ rightPanelWidth <= (IF isPDFHidden THEN viewport - 100 ELSE (viewport * 3) \div 5)

C4_Witness ==
  /\ lastMove # NoMove /\ ~isMobile /\ isResizing
  /\ viewport - lastMove - 4 > (viewport * 3) \div 5
  /\ rightPanelWidth = (viewport * 3) \div 5

Outstanding == (IF request.active THEN 1 ELSE 0) + staleRequests

\* C5 (as stated): while a send awaits its reply no further send is accepted,
\* so at most one request is outstanding at any time.
C5_AtMostOneOutstanding == Outstanding <= 1

\* C6 (as stated): every accepted send is completed by its assistant reply:
\* the pending flag clears only as the reply is appended behind the messages
\* already in the list.
C6_SendGetsReply ==
  [][ (isLoading /\ ~isLoading') =>
        /\ Len(messages') = Len(messages) + 1
        /\ SubSeq(messages', 1, Len(messages)) = messages
        /\ messages'[Len(messages')].sender = "ai" ]_vars

SeedLen == Len(ConvertMessagesFromHistory)

\* the reply the mocked service gives to the user message m
IsReplyTo(reply, m) ==
  /\ reply.sender = "ai"
  /\ m.highlightedText # NoContext =>
       reply.content = << "Based", "on" >> \o m.highlightedText
  /\ m.highlightedText = NoContext =>
       reply.content \in { << "generated", "the", "requested", "tool" >>,
                           << "This", "page", "discusses" >> }

SameButBackfill(old, new) ==
  \/ new = old
  \/ /\ old.toolResponse.has
     /\ new = [old EXCEPT !.toolResponse.loaded = TRUE]

\* C8 (as stated): the message list is append-only: no step removes, reorders
\* or replaces a message; a message changes only by the backfill of its tool
\* content.
C8_AppendOnly ==
  [][ /\ Len(messages') >= Len(messages)
      /\ \A i \in 1..Len(messages) :
           i <= Len(messages') /\ SameButBackfill(messages[i], messages'[i]) ]_vars

SectionOf(c, i) ==
  [page |-> toc.chapters[c].sections[i].page,
   sectionId |-> toc.chapters[c].sections[i].section_id,
   chapterId |-> toc.chapters[c].chapter_id]

SingleSameTitle(chapter) ==
  /\ chapter.hasSections /\ Len(chapter.sections) = 1
  /\ chapter.sections[1].title = chapter.title

\* C9: a chapter whose only section bears the chapter's title has no expand
\* control and is clicked directly; every navigation a contents entry emits
\* carries a section's page, that section's id and its parent chapter's id.
C9_ContentsClickNavigates ==
  /\ \A c \in 1..Len(toc.chapters) :
       SingleSameTitle(toc.chapters[c]) => ~hasExpandableSections(toc.chapters[c])
  /\ SinkFromContents =>
       \E c \in 1..Len(toc.chapters) :
         \E i \in 1..Len(toc.chapters[c].sections) : positionSink = SectionOf(c, i)

C9_Witness ==
  /\ SinkFromContents
  /\ \E c \in 1..Len(toc.chapters) :
       /\ SingleSameTitle(toc.chapters[c])
       /\ positionSink = SectionOf(c, 1)
       /\ currentPage = toc.chapters[c].sections[1].page

\* C10 (as stated): after navigating to a section with its page and id, the
\* current-section lookup for the current page returns that section and chapter.
C10_CurrentSectionIsNavigated ==
  (SinkFromContents /\ currentPage = positionSink.page) =>
     /\ getCurrentContext.sectionId = positionSink.sectionId
     /\ getCurrentContext.chapterId = positionSink.chapterId

\* C11 (as stated): whenever the contents navigator is disabled (no usable
\* table of contents) the contents pane is not rendered, its width is 0 and
\* the page count is the fixed default 100.
C11_NoContentsMeansDefaultPages ==
  ~hasTOC => /\ ~TOCRendered
             /\ tocWidth = 0
             /\ totalPages = DefaultTotalPages

\* C12: the resize state goes from Idle to Dragging only by a pointer-down on
\* the resize handle, and only where the viewport is not narrow and the
\* document is visible.
C12_DragStartsOnHandle ==
  [][ (~isResizing /\ isResizing') =>
        /\ HandleMouseDown
        /\ ~isMobile /\ viewport >= Breakpoint
        /\ ~isPDFHidden ]_vars

C12_Witness ==
  /\ isResizing /\ lastMove = NoMove
  /\ ~isMobile /\ ~isPDFHidden /\ viewport >= Breakpoint

\* C13: pointer-up is the only exit from Dragging and always takes it: no
\* pointer-move, viewport resize or collapse/hide toggle ends the drag, and
\* while Dragging a pointer-up is possible and returns to Idle.
C13_OnlyPointerUpEndsDrag ==
  [][ /\ (isResizing /\ ~isResizing') => HandleMouseUp
      /\ HandleMouseUp => ~isResizing'
      /\ (isResizing /\ ~checkPending) => ENABLED HandleMouseUp ]_vars

\* Dragging has outlived a hide toggle and a resize to the narrow layout
C13_Witness ==
  /\ isResizing /\ isPDFHidden /\ isMobile /\ ~checkPending

\* C14: once the breakpoint check has run in a viewport below 1024 the layout
\* is narrow, the contents are collapsed and the tool panel is 280 wide,
\* whatever the user did before.
C14_NarrowPolicy ==
  (viewport < Breakpoint /\ ~checkPending) =>
     /\ isMobile
     /\ isTOCCollapsed
     /\ rightPanelWidth = MobilePanelWidth

\* narrow, with a contents pane that could be toggled, in the middle of a drag
C14_Witness ==
  /\ viewport < Breakpoint /\ ~checkPending
  /\ hasTOC /\ ~isPDFHidden /\ isTOCCollapsed
  /\ isResizing /\ lastMove # NoMove
  /\ rightPanelWidth = MobilePanelWidth

\* C15: no step that appends a message (a send or the completion of a send,
\* with or without a tool) changes the active overlay; the overlay is opened
\* only by a user's open request on a message, at once or when its fetched
\* content arrives.
C15_SendNeverOpensOverlay ==
  [][ /\ Len(messages') > Len(messages) => activeOverlay' = activeOverlay
      /\ (activeOverlay'.open /\ activeOverlay' # activeOverlay) =>
           \E i \in 1..Len(messages) : HandleOpenTool(i) \/ CompleteLoadTool(i) ]_vars

\* a reply with a tool has arrived and the overlay is still closed
C15_Witness ==
  /\ Len(messages) > SeedLen
  /\ messages[Len(messages)].sender = "ai"
  /\ messages[Len(messages)].toolResponse.has
  /\ ~isLoading
  /\ ~activeOverlay.open

\* C16 (as stated): under any step a message that has a tool reference keeps
\* it, and a message whose tool content is loaded keeps it loaded.
C16_ToolStateMonotonic ==
  [][ \A i \in 1..Len(messages) :
        i <= Len(messages') =>
          /\ messages[i].toolResponse.has => messages'[i].toolResponse.has
          /\ messages[i].toolResponse.loaded => messages'[i].toolResponse.loaded ]_vars

DirectRequests(toolType) ==
  { << "Generate", ToolNameLower(toolType), "from" >> \o t : t \in Texts }

\* C17 (as stated): the reply to a direct generation of tool type T carries a
\* tool of type T, whatever the highlighted text.
C17_DirectGenerationKeepsType ==
  \A i \in 2..Len(messages) : \A toolType \in ToolIds :
    (messages[i].sender = "ai" /\ messages[i - 1].content \in DirectRequests(toolType))
      => /\ messages[i].toolResponse.has
         /\ messages[i].toolResponse.type = toolType

\* C18 (as stated): once the effects have run, a tick timer is running in
\* every Recording state and none is running in any Idle state.
C18_TimerArmedIffRecording ==
  ~recEffectPending => (isRecording <=> (timerArmed \/ leakedTimers > 0))

\* C19: a start of a capture that fails changes neither the recording state
\* nor the timers nor the elapsed counter; failing in Idle it leaves the state
\* Idle with the timer of the recording not running.
C19_FailedStartChangesNothing ==
  [][ (StartRecordingFails \/ StartRecordingThrows) =>
        /\ isRecording' = isRecording
        /\ timerArmed' = timerArmed /\ leakedTimers' = leakedTimers
        /\ recordingTime' = recordingTime
        /\ ~isRecording => (~isRecording' /\ ~timerArmed') ]_vars

\* the only start ever requested has failed
C19_Witness ==
  /\ voiceEvent = "failed"
  /\ ~isRecording /\ ~timerArmed /\ leakedTimers = 0
  /\ startsPending = 0 /\ recordingTime = 0

\* C20 (as stated): every stop of a recording starts one transcription, and
\* every transcription ends by appending the recognized text once to the
\* compose box behind the text that is there.
C20_StopAppendsOnce ==
  [][ /\ StopRecording => transcribing' = transcribing + 1
      /\ transcribing' < transcribing =>
           /\ transcribing' = transcribing - 1
           /\ inputValue' = WithTranscript(inputValue) ]_vars

\* C21 (as stated): a failed send clears the pending flag and leaves the
\* message list, the tool content and the overlay as they were before the
\* attempt (the list without the user message of the attempt); a failed tool
\* fetch clears the loading flag of its message and changes nothing else.
C21_FailureRollsBack ==
  [][ /\ FailSend =>
           /\ ~isLoading'
           /\ messages' = SubSeq(messages, 1, Len(messages) - 1)
           /\ activeOverlay' = activeOverlay
      /\ \A i \in 1..Len(messages) :
           FailLoadTool(i) =>
             /\ i \notin loadingTool'
             /\ messages' = messages
             /\ activeOverlay' = activeOverlay ]_vars

Appended == Len(messages') = Len(messages) + 1

ExplainPrompt(text) == << "Please", "explain:" >> \o text

\* C22: a send from the compose box or a toolbar button attaches the quoted
\* context waiting there and clears it in the same step; a direct generation
\* attaches its own selection; and a quoted context appears in the compose box
\* only by a new highlight routed there.  So a routed highlight is carried by
\* at most one message.
C22_ContextConsumedOnce ==
  [][ /\ ((SendFromCompose \/ \E tool \in ChatTools : HandleToolUse(tool)) /\ Appended) =>
           /\ messages'[Len(messages')].highlightedText = contextText
           /\ contextText' = NoContext
      /\ \A toolId \in ChatTools :
           (HandleToolSelect(toolId) /\ Appended) =>
              messages'[Len(messages')].highlightedText = textSelection
      /\ (contextText' # contextText /\ contextText' # NoContext) =>
           (HandleToolSelect("ask") /\ contextText' = textSelection) ]_vars

\* the routed highlight went out with one message and a later message is without it
C22_Witness ==
  /\ Len(messages) >= SeedLen + 3
  /\ messages[SeedLen + 1].highlightedText # NoContext
  /\ messages[SeedLen + 1].content = ExplainPrompt(messages[SeedLen + 1].highlightedText)
  /\ messages[SeedLen + 3].highlightedText = NoContext
  /\ contextText = NoContext

\* C24: a highlight with a tool type goes to direct generation (a user
\* message is synthesized and its request started, unless a send is pending);
\* a highlight with 'ask' only fills the compose box with the quoted context
\* and the prompt, appends nothing and starts nothing.
C24_HighlightRouting ==
  [][ /\ HandleToolSelect("ask") =>
           /\ contextText' = textSelection
           /\ inputValue' = ExplainPrompt(textSelection)
           /\ messages' = messages /\ isLoading' = isLoading /\ request' = request
      /\ \A toolId \in ChatTools :
           HandleToolSelect(toolId) =>
             IF isLoading
             THEN messages' = messages /\ request' = request
             ELSE /\ Appended
                  /\ messages'[Len(messages')].sender = "user"
                  /\ messages'[Len(messages')].content \in DirectRequests(toolId)
                  /\ isLoading' /\ request'.active /\ request'.autoGenerated ]_vars

\* an 'ask' highlight sits in the compose box and nothing has been sent
C24_Witness ==
  /\ contextText # NoContext
  /\ inputValue = ExplainPrompt(contextText)
  /\ Len(messages) = SeedLen /\ ~isLoading /\ ~request.active
  /\ textSelection = NoSelection

\* C30: a direct tool generation, accepted or suppressed, and its completion
\* leave the compose text and the quoted context waiting there as they were.
C30_DirectGenerationKeepsCompose ==
  [][ /\ \A toolId \in ChatTools :
           HandleToolSelect(toolId) =>
             inputValue' = inputValue /\ contextText' = contextText
      /\ (CompleteSend \/ CompleteStaleSend) =>
             inputValue' = inputValue /\ contextText' = contextText ]_vars

\* a direct generation has completed with an 'ask' highlight still waiting
C30_Witness ==
  /\ Len(messages) >= SeedLen + 2
  /\ \E toolType \in ChatTools :
       messages[Len(messages) - 1].content \in DirectRequests(toolType)
  /\ messages[Len(messages)].sender = "ai"
  /\ contextText # NoContext
  /\ inputValue = ExplainPrompt(contextText)
  /\ ~isLoading

\* the width the claim gives for a side-by-side configuration
SideBySideTarget(w, hidden, collapsed, contents) ==
  IF hidden THEN (IF w - 100 < 800 THEN w - 100 ELSE 800)
  ELSE IF ~contents THEN 400
  ELSE IF collapsed THEN 380 ELSE 320

\* C23: side by side, every viewport resize and every run of the breakpoint
\* check stores the target width of the configuration it leads to, whatever
\* a drag had stored; every change of documentHidden or contentsCollapsed
\* schedules a run of the check, and a scheduled run can always be taken.
C23_CheckSetsTargetWidth ==
  [][ /\ (((\E w \in Viewports : ViewportResize(w)) \/ RunCheckMobileEffect)
            /\ viewport' >= Breakpoint) =>
           rightPanelWidth' = SideBySideTarget(viewport', isPDFHidden', isTOCCollapsed', hasTOC)
      /\ (isPDFHidden' # isPDFHidden \/ isTOCCollapsed' # isTOCCollapsed) => checkPending'
      /\ checkPending => (ENABLED RunCheckMobileEffect) ]_vars

\* the check after hiding the document during a drag has stored min(800, viewport - 100)
C23_Witness ==
  /\ viewport >= Breakpoint /\ ~isMobile /\ ~checkPending
  /\ isResizing /\ isPDFHidden
  /\ rightPanelWidth = 800 /\ viewport - 100 > 800

\* the number of sections of a chapter entry, null counting as none
NumSections(chapter) == IF chapter.hasSections THEN Len(chapter.sections) ELSE 0

ExpandableAsStated(chapter) ==
  \/ NumSections(chapter) >= 2
  \/ NumSections(chapter) = 1 /\ chapter.sections[1].title # chapter.title

ClickableAsStated(chapter) ==
  \/ NumSections(chapter) = 0
  \/ NumSections(chapter) = 1 /\ chapter.sections[1].title = chapter.title

\* C25: every chapter entry of the loaded contents is exactly one of expandable
\* and directly clickable; it is expandable iff it has two or more sections or
\* one section titled unlike the chapter, directly clickable iff it has no
\* sections (null or empty) or one section titled like the chapter; two entries
\* with the same sections and title are classified alike wherever they stand;
\* with the list shown, the header click is available exactly on the directly
\* clickable entries.
C25_ChapterClassification ==
  \A c \in 1..Len(toc.chapters) :
    LET chapter == toc.chapters[c] IN
      /\ hasExpandableSections(chapter) <=> ExpandableAsStated(chapter)
      /\ isDirectlyClickable(chapter) <=> ClickableAsStated(chapter)
      /\ hasExpandableSections(chapter) # isDirectlyClickable(chapter)
      /\ \A t \in TOCs : \A d \in 1..Len(t.chapters) :
           ( /\ t.chapters[d].title = chapter.title
             /\ t.chapters[d].hasSections = chapter.hasSections
             /\ t.chapters[d].sections = chapter.sections ) =>
             (isDirectlyClickable(t.chapters[d]) <=> isDirectlyClickable(chapter))
      /\ (TOCEntriesShown /\ ~checkPending) =>
           ((ENABLED HandleChapterClick(c)) <=> ClickableAsStated(chapter))

\* a directly clickable header was just clicked in a contents list that also
\* has an entry whose single section is titled unlike it and an entry with
\* several sections
C25_Witness ==
  /\ lastChapterClick # 0
  /\ ClickableAsStated(toc.chapters[lastChapterClick])
  /\ \E c \in 1..Len(toc.chapters) :
       NumSections(toc.chapters[c]) = 1 /\ hasExpandableSections(toc.chapters[c])
  /\ \E c \in 1..Len(toc.chapters) : NumSections(toc.chapters[c]) >= 2

\* C28: side by side with the document pane visible, the stored tool-panel
\* width is between 280 and 60% of the container width and the derived
\* document-pane width is not negative, also between a toggle or resize and
\* the breakpoint check that follows it.
C28_WidthWithinBounds ==
  (~isMobile /\ ~isPDFHidden) =>
    /\ rightPanelWidth >= MinWidth
    /\ rightPanelWidth * 10 <= containerWidth * 6
    /\ containerWidth - tocWidth - rightPanelWidth - 4 >= 0

\* C29: a click on a directly clickable chapter without sections, null or an
\* empty list, changes neither the current page nor the viewer's page, and
\* the position sink keeps the value of its last call.
C29_SectionlessClickIsNoOp ==
  [][ \A c \in 1..Len(toc.chapters) :
        (HandleChapterClick(c) /\ NumSections(toc.chapters[c]) = 0) =>
          /\ currentPage' = currentPage
          /\ positionSink' = positionSink
          /\ UNCHANGED viewerVars ]_vars

\* the header of a chapter whose sections are null was clicked on a later
\* page, and page and sink are as the last navigation left them
C29_Witness ==
  /\ lastChapterClick # 0
  /\ ~toc.chapters[lastChapterClick].hasSections
  /\ currentPage > 1
  /\ positionSink # NoPosition
  /\ positionSink.page = currentPage

\* C26: the document's pointer-move and pointer-up listeners of the resize
\* exist exactly while isResizing, the Escape key listener of the selection
\* popup exactly while the popup is open, and no effect ever has more than
\* one listener of a kind on the document.
C26_ListenersOnlyWhileActive ==
  /\ listeners.resizeMove = Count(isResizing)
  /\ listeners.resizeUp = Count(isResizing)
  /\ listeners.escapeKeyUp = Count(showPopup)
  /\ \A k \in DOMAIN listeners : listeners[k] \in {0, 1}

\* C27: the open button of a message with a tool id and no content starts a
\* fetch and changes neither the list nor the overlay; the arrival of the
\* fetched content stores it in every message with that id, changes no other
\* message and opens the overlay with it; the open button of a message with
\* content opens the overlay with it and starts no fetch; once the fetch of
\* an id has completed, no later open of a message with that id starts a fetch.
C27_OpenFetchesOnce ==
  [][ \A i \in 1..Len(messages) :
        LET tool == messages[i].toolResponse IN
          /\ (HandleOpenTool(i) /\ ~tool.loaded) =>
               /\ tool.id # 0 - 1
               /\ loadingTool' = loadingTool \cup {i}
               /\ messages' = messages /\ activeOverlay' = activeOverlay
          /\ (HandleOpenTool(i) /\ tool.loaded) =>
               /\ loadingTool' = loadingTool
               /\ activeOverlay' = [open |-> TRUE, type |-> tool.type, id |-> tool.id]
          /\ CompleteLoadTool(i) =>
               /\ Len(messages') = Len(messages)
               /\ \A k \in 1..Len(messages) :
                    IF messages[k].toolResponse.has /\ messages[k].toolResponse.id = tool.id
                    THEN messages'[k] = [messages[k] EXCEPT !.toolResponse.loaded = TRUE]
                    ELSE messages'[k] = messages[k]
               /\ activeOverlay' = [open |-> TRUE, type |-> tool.type, id |-> tool.id]
          /\ (HandleOpenTool(i) /\ tool.id \in loadedIds) => loadingTool' = loadingTool ]_vars

====
